---- MODULE Spec2Model ----
(***************************************************************************)
(* State-machine model of the 2D physics playground:                       *)
(*   Page (app/page.tsx), NeubrutalistToggle and PhysicsCanvas             *)
(*   (components/physics-canvas.tsx), the useMatter hook (the TypeScript   *)
(*   part of README.md), matter-config (unnamed/part_000) and the shape    *)
(*   factory (unnamed/part_001).                                           *)
(*                                                                         *)
(* Every action is one browser task: a DOM event handler, a timer          *)
(* callback, an animation-frame callback, or a React commit together with  *)
(* the effects it runs.  JavaScript runs these one at a time, so each is   *)
(* atomic.  The matter-js calls the code makes (Engine.update,             *)
(* MouseConstraint.update, Sleeping.update, World.clear, Runner.stop) are  *)
(* modelled by what the library does at that call.                         *)
(*                                                                         *)
(* Units: positions in pixels, gravity in tenths (0.5 is 5, 1 is 10),      *)
(* angles in quarter turns, body.force.y in multiples of -0.05.            *)
(***************************************************************************)
EXTENDS Integers, Sequences, FiniteSets, TLC

VARIABLES
    phase,          \* PhysicsCanvas: "init", "loading", "mounted", "unmounted"
    win,            \* window.innerWidth / window.innerHeight
    dimensions,     \* PhysicsCanvas state `dimensions`
    resizeTimer,    \* the pending resize debounce timeouts, by their delay in ms
    resizeListener, \* TRUE while updateDimensions listens to window 'resize'
    spawnCount,     \* Page state `spawnCount`
    toggle,         \* NeubrutalistToggle: isActive, its pending timeout and the delay it was set for
    engineRef,      \* useMatter engineRef.current (0 is null)
    engines,        \* every engine created so far, by creation order
    matterCleanup,  \* engine whose effect cleanup React holds (0: none)
    renderLoop,     \* the pending render callbacks, oldest request first: the engine whose world each draws
    canvas,         \* what the last render frame drew: body ids with outlines
    bodies,         \* every dynamic body created so far, by creation order
    flashTimers,    \* pending 100 ms restore timeouts, oldest first
    pointer,        \* the mouse gesture in progress
    batches,        \* history: number of spawn batches created
    factory,        \* the last direct call of a shape factory function and its result
    culling         \* a direct call of cullOffscreenBodies: its forEach and its removal

vars == <<phase, win, dimensions, resizeTimer, resizeListener, spawnCount, toggle,
          engineRef, engines, matterCleanup, renderLoop, canvas, bodies,
          flashTimers, pointer, batches, factory, culling>>

\* Every variable but factory and culling.
pageVars == <<phase, win, dimensions, resizeTimer, resizeListener, spawnCount, toggle,
              engineRef, engines, matterCleanup, renderLoop, canvas, bodies,
              flashTimers, pointer, batches>>

\* Every variable but factory.
appVars == <<phase, win, dimensions, resizeTimer, resizeListener, spawnCount, toggle,
             engineRef, engines, matterCleanup, renderLoop, canvas, bodies,
             flashTimers, pointer, batches, culling>>

(***************************************************************************)
(* Bounds of the model.                                                    *)
(***************************************************************************)
MaxEngines == 2         \* engines created in one run
MaxBodies == 2          \* dynamic bodies created in one run
MaxClicks == 2          \* toggle clicks in one run
MaxFlashTimers == 3     \* restore timeouts pending at once
MaxForce == 1           \* click forces accumulated between two ticks
MaxGestures == 1        \* press-release gestures of the pointer in one run
SpawnMin == 1           \* stands for the 30 of the spawn effect
SpawnSpread == 1        \* stands for the 21 of the spawn effect
PaletteUsed == 2        \* leading entries of COLORS the model draws from
SleepThreshold == 3     \* stands for matter-js' default body.sleepThreshold (60)
MantissaBits == 6       \* significant bits of a number (stands for the 53 of a double)
MaxSides == 4           \* largest `sides` passed to createPolygon
MaxPoints == 3          \* largest `points` passed to createStar
CullPeriod == 2         \* stands for the 60 of afterUpdate

(***************************************************************************)
(* matter-config                                                           *)
(***************************************************************************)
PHYSICS_CONFIG ==
    [gravity |-> [x |-> 0, y |-> 10],
     enableSleeping |-> TRUE,
     positionIterations |-> 6,
     velocityIterations |-> 4]

SLEEPING_CONFIG == [sleepThreshold |-> 60]

CULLING_CONFIG == [bufferZone |-> 500]

COLORS == <<"#FF00FF", "#00FF00", "#FFFF00", "#00FFFF",
            "#FF6B00", "#FF0080", "#80FF00", "#0080FF">>

FlashColor == "#FFFFFF"

(***************************************************************************)
(* Small helpers                                                           *)
(***************************************************************************)
\* Angles are multiples of a quarter turn.
AngleSteps == 2 * 2

Dim(w, h) == [width |-> w, height |-> h]

NoDim == Dim(0, 0)

InitialWindow == Dim(500, 500)

WindowSizes == {InitialWindow, Dim(1000, 500)}

\* A body as the pointer or a collision pair names it: a dynamic body by its
\* id, a static body by its label (id 0), or no body.
Dyn(b) == [kind |-> "dynamic", id |-> b]

Static(label) == [kind |-> label, id |-> 0]

None == [kind |-> "none", id |-> 0]

\* No call of cullOffscreenBodies in progress.
NotCulling == [stage |-> "idle", engine |-> 0, world |-> <<>>, index |-> 0,
               bodiesToRemove |-> <<>>, removeCalls |-> 0]

\* Vertical grid of the model: a moving body travels FallStep per tick between
\* the spawn height and BottomY.
SpawnY == 0 - 50

FallStep == CULLING_CONFIG.bufferZone

BottomY == SpawnY + 3 * FallStep

\* x of a body that has left the playfield over the top of the left wall.
OutsideX == 0 - 100

StaticLabels == {"floor", "leftWall", "rightWall"}

EngineIds == 1..Len(engines)

BodyIds == 1..Len(bodies)

Min(a, b) == IF a < b THEN a ELSE b

Max(a, b) == IF a > b THEN a ELSE b

Range(f) == {f[i] : i \in DOMAIN f}

\* Ascending sequence of a finite set of integers.
RECURSIVE SetToSeq(_)
SetToSeq(S) ==
    IF S = {} THEN <<>>
    ELSE LET m == CHOOSE x \in S : \A y \in S : x <= y
         IN <<m>> \o SetToSeq(S \ {m})

(***************************************************************************)
(* useMatter: engine creation and effect cleanup                           *)
(***************************************************************************)
\* Engine.create(...) up to engineRef.current = engine: the engine with its
\* runner started, the three static boundaries, the mouse constraint and the
\* click / collisionStart / afterUpdate listeners.  MouseConstraint.create
\* registers its own beforeUpdate listener.
EngineCreate(width, height) ==
    [gravity |-> [x |-> 0, y |-> 5],
     enableSleeping |-> PHYSICS_CONFIG.enableSleeping,
     positionIterations |-> PHYSICS_CONFIG.positionIterations,
     velocityIterations |-> PHYSICS_CONFIG.velocityIterations,
     width |-> width,
     height |-> height,
     running |-> TRUE,
     listeners |-> {"beforeUpdate", "click", "collisionStart", "afterUpdate"},
     statics |-> StaticLabels,
     dyn |-> {},
     constraints |-> {"mouseConstraint"},
     contacts |-> {},
     frameCount |-> 0,
     mouse |-> [button |-> 0 - 1, over |-> None],
     mcBody |-> None,
     cleaned |-> FALSE]

\* A cleanup that forgets Runner.stop(runner).
EngineCleanupKeepsRunner(eng) ==
    [eng EXCEPT !.listeners = @ \ {"click", "collisionStart", "afterUpdate"},
                !.statics = {},
                !.dyn = {},
                !.constraints = {},
                !.contacts = {},
                !.cleaned = TRUE]

\* The cleanup returned by the useMatter effect.
EngineCleanup(eng) ==
    [eng EXCEPT !.listeners = @ \ {"click", "collisionStart", "afterUpdate"},
                !.running = FALSE,
                !.statics = {},
                !.dyn = {},
                !.constraints = {},
                !.contacts = {},
                !.cleaned = TRUE]

\* State-space reduction, not program behaviour: nothing reads the mouse, the
\* held body or the frame counter of a torn-down engine again, and a body that
\* is in no world is reached only by pending restore timeouts, which write its
\* fillStyle.  The model forgets the fields that can no longer be read.
ForgetEngine(eng) ==
    [eng EXCEPT !.mouse = [button |-> 0 - 1, over |-> None],
                !.mcBody = None,
                !.frameCount = 0]

ForgetBody(body) ==
    [body EXCEPT !.pos = [x |-> 0, y |-> 0], !.angle = 0, !.vy = 0, !.spin = 0,
                 !.isSleeping = FALSE, !.sleepCounter = 0, !.force = 0,
                 !.stillRun = 0]

\* A commit that does not run the cleanup of the previous effect.
CleanedEnginesSkipped(engs, e) == engs

\* A render effect cleanup that cancels nothing.
CancelAnimationFrameSkipped(pending) == pending

\* Render effect cleanup: cancelAnimationFrame(animationFrameRef.current).
\* animationFrameRef.current is the id of the last request, so the callback
\* requested last is the one cancelled.
CancelAnimationFrame(pending) ==
    IF pending = <<>> THEN <<>> ELSE SubSeq(pending, 1, Len(pending) - 1)

\* The engines and bodies after the cleanup of engine e has run.
CleanedEngines(engs, e) ==
    IF e = 0 THEN engs ELSE [engs EXCEPT ![e] = ForgetEngine(EngineCleanup(@))]

CleanedBodies(bods, engs, e) ==
    IF e = 0 THEN bods
    ELSE [b \in DOMAIN bods |-> IF b \in engs[e].dyn THEN ForgetBody(bods[b]) ELSE bods[b]]

\* World.add(engineRef.current.world, body) for a set of bodies.
AddBody(engs, ref, ids) ==
    IF ref # 0 THEN [engs EXCEPT ![ref].dyn = @ \cup ids] ELSE engs

\* const getEngine = () => engineRef.current
GetEngine(ref) == ref

\* A getWorld that keeps answering with the world of the first engine.
GetWorldOfFirstEngine(ref) == IF ref = 0 THEN 0 ELSE 1

\* const getWorld = () => engineRef.current?.world
GetWorld(ref) == ref

(***************************************************************************)
(* Numbers.  A number is an integer count of 1/Unit; arithmetic rounds its *)
(* result to MantissaBits significant bits, ties to even, as IEEE 754      *)
(* double arithmetic does with 53.  Math.random() returns d / Unit for a   *)
(* draw d in 0..Unit-1, every number of [0, 1) with that many bits.        *)
(***************************************************************************)
RECURSIVE Pow2(_)
Pow2(n) == IF n = 0 THEN 1 ELSE 2 * Pow2(n - 1)

Unit == Pow2(MantissaBits)

Draws == 0..(Unit - 1)

\* The smallest and the largest draw.
EdgeDraws == {0, Unit - 1}

RECURSIVE BitLength(_)
BitLength(n) == IF n = 0 THEN 0 ELSE 1 + BitLength(n \div 2)

\* n rounded to the nearest number with MantissaBits significant bits.
RoundDouble(n) ==
    IF BitLength(n) <= MantissaBits THEN n
    ELSE LET q == Pow2(BitLength(n) - MantissaBits)
             lo == (n \div q) * q
             rem == n - lo
         IN  IF 2 * rem < q THEN lo
             ELSE IF 2 * rem > q THEN lo + q
             ELSE IF (lo \div q) % 2 = 0 THEN lo ELSE lo + q

\* Math.floor
Floor(n) == n \div Unit

(***************************************************************************)
(* shape factory: the functions, called directly                           *)
(***************************************************************************)
\* randomInRange(min, max) for the draw d: Math.random() * (max - min) + min.
randomInRange(d, min, max) ==
    RoundDouble(RoundDouble(d * (max - min)) + min * Unit)

\* COLORS[Math.floor(Math.random() * COLORS.length)]; an index outside the
\* array reads undefined.
getRandomColor(d) ==
    LET index == Floor(RoundDouble(d * Len(COLORS)))
    IN  [index |-> index,
         color |-> IF index < Len(COLORS) THEN COLORS[index + 1] ELSE "undefined"]

\* createCircle: Bodies.circle(x, y, randomInRange(20, 50), ...).
createCircle(d) ==
    [kind |-> "circle", radius |-> randomInRange(d, 20, 50), error |-> "none"]

\* createPolygon: Bodies.polygon(x, y, sides, randomInRange(25, 45), ...),
\* whatever sides is.
createPolygon(sides, d) ==
    [kind |-> "polygon", sides |-> sides, radius |-> randomInRange(d, 25, 45),
     error |-> "none"]

\* A createStar whose loop and angle step use points, not points * 2.
createStarOnePerPoint(points, d) ==
    LET outerRadius == randomInRange(d, 30, 50)
        count == IF points > 0 THEN points ELSE 0
    IN  [kind |-> "star",
         points |-> points,
         outerRadius |-> outerRadius,
         vertices |-> [k \in 1..count |->
                          [angle |-> [num |-> 4 * (k - 1) - points, den |-> 4 * points],
                           radius |-> IF (k - 1) % 2 = 0
                                      THEN 10 * outerRadius ELSE 4 * outerRadius]],
         error |-> "none"]

\* createStar: the vertex list handed to Bodies.fromVertices.  Vertex i (from
\* 0) is at angle i * angleStep - PI / 2, which is (2i - points) / (4 points)
\* of a turn; its radius is kept in tenths, outerRadius or 0.4 outerRadius.
createStar(points, d) ==
    LET outerRadius == randomInRange(d, 30, 50)
        count == IF points > 0 THEN points * 2 ELSE 0
    IN  [kind |-> "star",
         points |-> points,
         outerRadius |-> outerRadius,
         vertices |-> [k \in 1..count |->
                          [angle |-> [num |-> 2 * (k - 1) - points, den |-> 4 * points],
                           radius |-> IF (k - 1) % 2 = 0
                                      THEN 10 * outerRadius ELSE 4 * outerRadius]],
         error |-> "none"]

\* Math.floor(randomInRange(4, 8))
VertexCount(d) == Floor(randomInRange(d, 4, 8))

\* createIrregularPolygon: vertex k has radius baseRadius times a factor drawn
\* by randomInRange(0.7, 1.3); the factor is kept in tenths.
createIrregularPolygon(dCount, dBase, jitter) ==
    LET vertexCount == VertexCount(dCount)
        baseRadius == randomInRange(dBase, 25, 45)
    IN  [kind |-> "irregular",
         vertexCount |-> vertexCount,
         baseRadius |-> baseRadius,
         vertices |-> [k \in 1..vertexCount |->
                          [step |-> k - 1,
                           radius |-> baseRadius * randomInRange(jitter[k], 7, 13)]],
         error |-> "none"]

SHAPE_FACTORIES ==
    <<"createCircle", "createRectangle", "createTriangle", "createPentagon",
      "createHexagon", "createOctagon", "create5PointStar", "create6PointStar",
      "createIrregularPolygon">>

\* A choice that rounds to the nearest index instead of rounding down.
RandomFactoryRounds(d, registry) ==
    LET index == Floor(RoundDouble(d * Len(registry)) + Unit \div 2)
    IN  [index |-> index,
         factory |-> IF index < Len(registry) THEN registry[index + 1] ELSE "undefined"]

\* createRandomShape's choice in a registry: an index outside it reads undefined.
RandomFactory(d, registry) ==
    LET index == Floor(RoundDouble(d * Len(registry)))
    IN  [index |-> index,
         factory |-> IF index < Len(registry) THEN registry[index + 1] ELSE "undefined"]

(***************************************************************************)
(* shape factory and the spawn effect                                      *)
(***************************************************************************)
ShapeKinds == {"circle", "rectangle"}

\* What the random draws of one createRandomShape + setVelocity decide.
BodySpecs(shapes, colors, angles, speeds) ==
    {[shape |-> s, color |-> c, angle |-> a, vy |-> v] :
        s \in shapes, c \in colors, a \in angles, v \in speeds}

\* The body createRandomShape(x, -50) returns, after Body.setVelocity.
CreateRandomShape(x, spec) ==
    [pos |-> [x |-> x, y |-> SpawnY],
     angle |-> IF spec.shape = "circle" THEN 0 ELSE spec.angle,
     shape |-> spec.shape,
     fillStyle |-> COLORS[spec.color],
     vy |-> spec.vy,
     spin |-> 0,
     isSleeping |-> FALSE,
     sleepCounter |-> 0,
     force |-> 0,
     stillRun |-> 0]

\* Rounding of a number of either sign.
SignedRound(n) == IF n < 0 THEN 0 - RoundDouble(0 - n) ELSE RoundDouble(n)

\* A count taken with Math.round in place of Math.floor.
SpawnBatchCountRounds(d) == Floor(RoundDouble(d * 21) + Unit \div 2) + 30

\* const count = Math.floor(Math.random() * 21) + 30, for the draw d.
SpawnBatchCount(d) == Floor(RoundDouble(d * 21)) + 30

\* const x = Math.random() * dimensions.width
SpawnX(d, width) == RoundDouble(d * width)

\* initialVelocity: x = (Math.random() - 0.5) * 2, y = Math.random() * 2.
initialVelocity(dx, dy) ==
    [x |-> SignedRound(SignedRound(dx - Unit \div 2) * 2),
     y |-> RoundDouble(dy * 2)]

\* count = Math.floor(Math.random() * 21) + 30, on the model's scale.
SpawnCounts == SpawnMin..(SpawnMin + SpawnSpread - 1)

Batches(specs) == UNION {[1..n -> specs] : n \in SpawnCounts}

\* Guards that forget to wait for the dimensions.
SpawnGuardIgnoresSize(count, canvasEl, dims) ==
    count # 0 /\ canvasEl

\* The guards of the spawn effect.
SpawnGuard(count, canvasEl, dims) ==
    count # 0 /\ canvasEl /\ dims.width # 0 /\ dims.height # 0

(***************************************************************************)
(* the render loop                                                         *)
(***************************************************************************)
\* Sizes the factories draw from their ranges: a circle of radius 35 and a
\* rectangle 80 wide and 30 high.
ShapeSize == [radius |-> 35, halfWidth |-> 40, halfHeight |-> 15]

Vec(x, y) == [x |-> x, y |-> y]

VecAdd(a, b) == Vec(a.x + b.x, a.y + b.y)

VecSub(a, b) == Vec(a.x - b.x, a.y - b.y)

\* v turned by k quarter turns, as Vertices.rotate and ctx.rotate turn it.
Rotate(v, k) ==
    CASE k % AngleSteps = 0 -> v
      [] k % AngleSteps = 1 -> Vec(0 - v.y, v.x)
      [] k % AngleSteps = 2 -> Vec(0 - v.x, 0 - v.y)
      [] OTHER -> Vec(v.y, 0 - v.x)

\* Vertices of a shape around the origin before any rotation.
LocalVertices(shape) ==
    IF shape = "circle"
    THEN <<Vec(ShapeSize.radius, 0), Vec(0, ShapeSize.radius),
           Vec(0 - ShapeSize.radius, 0), Vec(0, 0 - ShapeSize.radius)>>
    ELSE <<Vec(0 - ShapeSize.halfWidth, 0 - ShapeSize.halfHeight),
           Vec(ShapeSize.halfWidth, 0 - ShapeSize.halfHeight),
           Vec(ShapeSize.halfWidth, ShapeSize.halfHeight),
           Vec(0 - ShapeSize.halfWidth, ShapeSize.halfHeight)>>

\* body.vertices: matter-js keeps them in world space, turned by body.angle.
Vertices(body) ==
    [i \in 1..Len(LocalVertices(body.shape)) |->
        VecAdd(body.pos, Rotate(LocalVertices(body.shape)[i], body.angle))]

\* The points of the path one body is drawn with, in canvas space.  Between
\* ctx.save() and ctx.restore() the transform is translate(position) then
\* rotate(angle); a circle is an arc around the origin, a polygon the path
\* through vertices[i] - position.
DrawBody(body) ==
    LET transform(p) == VecAdd(body.pos, Rotate(p, body.angle))
    IN  IF body.shape = "circle"
        THEN [i \in 1..Len(LocalVertices("circle")) |->
                 transform(LocalVertices("circle")[i])]
        ELSE [i \in 1..Len(Vertices(body)) |->
                 transform(VecSub(Vertices(body)[i], body.pos))]

\* What one frame leaves on the canvas: the dynamic bodies of the world, each
\* with its outline; static bodies are skipped.
DrawFrame(bods, world) ==
    {[body |-> b, outline |-> DrawBody(bods[b])] : b \in world}

\* A render that also writes the angle it drew the body at back to the body.
RenderBodyResetsAngle(body, pick) ==
    [body EXCEPT !.angle = 0]

\* render(): the only write of a frame is the fallback fillStyle of a body
\* that has none.
RenderBody(body, pick) ==
    IF body.fillStyle = "" THEN [body EXCEPT !.fillStyle = COLORS[pick]] ELSE body

RenderFrame(bods, world, pick) ==
    [b \in DOMAIN bods |-> IF b \in world THEN RenderBody(bods[b], pick) ELSE bods[b]]

(***************************************************************************)
(* A React commit of PhysicsCanvas: the cleanups of the effects whose      *)
(* dependencies changed, then the effects in declaration order: useMatter, *)
(* render loop, spawn.  getWorld and addBody are new functions on every    *)
(* render, so the render and spawn effects run on every commit.            *)
(***************************************************************************)
Commit(canvasEl, newDims, newCount, batch, pick) ==
    LET depsChanged == newDims # dimensions
        \* cleanup phase
        cleans == IF depsChanged THEN matterCleanup ELSE 0
        engs1 == CleanedEngines(engines, cleans)
        bods0 == CleanedBodies(bodies, engines, cleans)
        \* useMatter effect
        create == depsChanged /\ canvasEl /\ newDims.width # 0 /\ newDims.height # 0
        engs2 == IF create
                 THEN Append(engs1, EngineCreate(newDims.width, newDims.height))
                 ELSE engs1
        ref2 == IF create THEN Len(engs2) ELSE engineRef
        \* render effect: render() once, then one callback pending
        world == GetWorld(ref2)
        loops == canvasEl /\ world # 0
        bods1 == IF loops THEN RenderFrame(bods0, engs2[world].dyn, pick) ELSE bods0
        \* spawn effect
        spawns == SpawnGuard(newCount, canvasEl, newDims)
        ids == (Len(bodies) + 1)..(Len(bodies) + Len(batch))
        bods2 == bods1 \o [i \in 1..Len(batch) |->
                              CreateRandomShape(newDims.width \div 2, batch[i])]
    IN  /\ create => Len(engines) < MaxEngines
        /\ spawns <=> batch # <<>>
        /\ Len(bodies) + Len(batch) <= MaxBodies
        /\ engines' = IF spawns THEN AddBody(engs2, ref2, ids) ELSE engs2
        /\ engineRef' = ref2
        /\ matterCleanup' = IF depsChanged THEN (IF create THEN ref2 ELSE 0)
                            ELSE matterCleanup
        /\ renderLoop' = IF loops THEN Append(CancelAnimationFrame(renderLoop), world)
                        ELSE CancelAnimationFrame(renderLoop)
        /\ canvas' = IF loops THEN DrawFrame(bods1, engs2[world].dyn) ELSE canvas
        /\ bodies' = bods2
        /\ batches' = IF spawns THEN batches + 1 ELSE batches

\* Random draws a render frame can consume: only a body without fillStyle
\* makes the frame draw one.
Picks(world) ==
    IF \E b \in world : bodies[b].fillStyle = "" THEN 1..PaletteUsed ELSE {1}

\* Random draws a commit consumes.
CommitDraws(canvasEl, newDims, newCount, specs) ==
    IF SpawnGuard(newCount, canvasEl, newDims) THEN Batches(specs) ELSE {<<>>}

(***************************************************************************)
(* Initial state: the page before its first commit.                        *)
(***************************************************************************)
Init ==
    /\ phase = "init"
    /\ win = InitialWindow
    /\ dimensions = NoDim
    /\ resizeTimer = <<>>
    /\ resizeListener = FALSE
    /\ spawnCount = 0
    /\ toggle = [isActive |-> FALSE, timer |-> FALSE, delay |-> 0]
    /\ engineRef = 0
    /\ engines = <<>>
    /\ matterCleanup = 0
    /\ renderLoop = <<>>
    /\ canvas = {}
    /\ bodies = <<>>
    /\ flashTimers = <<>>
    /\ pointer = [down |-> FALSE, moved |-> FALSE, over |-> None, gestures |-> 0]
    /\ batches = 0
    /\ factory = [fn |-> "none"]
    /\ culling = NotCulling

(***************************************************************************)
(* React lifecycle, resize and toggle                                      *)
(***************************************************************************)
\* The delay, in milliseconds, of the resize debounce.
ResizeDebounceMs == 250

\* An updateDimensions that sets its timeout without clearing the pending one.
updateDimensionsKeepsTimeout(timers) == Append(timers, ResizeDebounceMs)

\* updateDimensions: clearTimeout(resizeTimeout), then setTimeout(..., 250).
\* resizeTimeout holds the last timeout set, the only one that can be pending.
updateDimensions(timers) == <<ResizeDebounceMs>>

\* First commit: isMounted is false, so the canvas element is not rendered.
\* The useMatter, render and spawn effects run and return at their guards;
\* the resize effect does setIsMounted(true), updateDimensions(),
\* addEventListener('resize').
Mount ==
    /\ phase = "init"
    /\ phase' = "loading"
    /\ resizeTimer' = updateDimensions(resizeTimer)
    /\ resizeListener' = TRUE
    /\ Commit(FALSE, dimensions, spawnCount, <<>>, 1)
    /\ UNCHANGED <<factory, culling, win, dimensions, spawnCount, toggle, flashTimers, pointer>>

\* The commit setIsMounted(true) causes: the canvas element exists from here on.
MountedCommit ==
    /\ phase = "loading"
    /\ phase' = "mounted"
    /\ Commit(TRUE, dimensions, spawnCount, <<>>, 1)
    /\ UNCHANGED <<factory, culling, win, dimensions, resizeTimer, resizeListener, spawnCount,
                   toggle, flashTimers, pointer>>

\* window 'resize': updateDimensions restarts the 250 ms debounce.
ResizeEvent ==
    /\ phase = "mounted"
    /\ resizeListener
    /\ \E w \in WindowSizes \ {win} : win' = w
    /\ resizeTimer' = updateDimensions(resizeTimer)
    /\ UNCHANGED <<factory, culling, phase, dimensions, resizeListener, spawnCount, toggle, engineRef, engines,
                   matterCleanup, renderLoop, canvas, bodies, flashTimers,
                   pointer, batches>>

\* window 'resize' to a window without width (a collapsed or hidden frame).
ResizeCollapse ==
    /\ phase = "mounted"
    /\ resizeListener
    /\ win.width # 0
    /\ win' = Dim(0, win.height)
    /\ resizeTimer' = updateDimensions(resizeTimer)
    /\ UNCHANGED <<factory, culling, phase, dimensions, resizeListener, spawnCount, toggle,
                   engineRef, engines, matterCleanup, renderLoop, canvas, bodies,
                   flashTimers, pointer, batches>>

\* The debounce timeout: setDimensions(window size) and the commit it causes.
\* Nothing clears the timeout on unmount; React ignores the update then.
ResizeTimerFire(specs) ==
    /\ resizeTimer # <<>>
    /\ phase \in {"mounted", "unmounted"}
    /\ resizeTimer' = Tail(resizeTimer)
    /\ IF phase = "mounted"
       THEN /\ dimensions' = win
            /\ \E batch \in CommitDraws(TRUE, win, spawnCount, specs) :
               \E pick \in Picks(IF engineRef = 0 THEN {} ELSE engines[engineRef].dyn) :
                  Commit(TRUE, win, spawnCount, batch, pick)
       ELSE UNCHANGED <<dimensions, engineRef, engines, matterCleanup, renderLoop,
                        canvas, bodies, batches>>
    /\ UNCHANGED <<factory, culling, phase, win, resizeListener, spawnCount, toggle, flashTimers, pointer>>

\* The delay, in milliseconds, handleClick hands to setTimeout.
ToggleResetMs == 300

\* NeubrutalistToggle.handleClick, Page.handleSpawn and the commit it causes.
ToggleClick(specs) ==
    /\ phase = "mounted"
    /\ spawnCount < MaxClicks
    /\ toggle' = [isActive |-> TRUE, timer |-> TRUE, delay |-> ToggleResetMs]
    /\ spawnCount' = spawnCount + 1
    /\ \E batch \in CommitDraws(TRUE, dimensions, spawnCount + 1, specs) :
       \E pick \in Picks(IF engineRef = 0 THEN {} ELSE engines[engineRef].dyn) :
          Commit(TRUE, dimensions, spawnCount + 1, batch, pick)
    /\ UNCHANGED <<factory, culling, phase, win, dimensions, resizeTimer, resizeListener,
                   flashTimers, pointer>>

\* The toggle's auto-reset timeout.
ToggleTimerFire ==
    /\ toggle.timer
    /\ toggle' = [isActive |-> FALSE, timer |-> FALSE, delay |-> 0]
    /\ UNCHANGED <<factory, culling, phase, win, dimensions, resizeTimer, resizeListener, spawnCount,
                   engineRef, engines, matterCleanup, renderLoop, canvas, bodies,
                   flashTimers, pointer, batches>>

\* The page unmounts: every effect cleanup runs.
Unmount ==
    /\ phase = "mounted"
    /\ phase' = "unmounted"
    /\ engines' = CleanedEngines(engines, matterCleanup)
    /\ bodies' = CleanedBodies(bodies, engines, matterCleanup)
    /\ matterCleanup' = 0
    /\ resizeListener' = FALSE
    /\ renderLoop' = CancelAnimationFrame(renderLoop)
    /\ toggle' = [toggle EXCEPT !.timer = FALSE, !.delay = 0]
    /\ pointer' = [pointer EXCEPT !.down = FALSE, !.moved = FALSE, !.over = None]
    /\ UNCHANGED <<factory, culling, win, dimensions, resizeTimer, spawnCount, engineRef, canvas,
                   flashTimers, batches>>

(***************************************************************************)
(* Pointer events.  Mouse.create(canvas) adds mousedown / mousemove /      *)
(* mouseup listeners for the engine's mouse.  Nothing removes them, but a  *)
(* torn-down engine never reads its mouse again, so the model stops        *)
(* updating it.  The browser dispatches click right after mouseup, before  *)
(* any animation frame.                                                    *)
(***************************************************************************)
\* Bodies of the live world that are on screen, hence under a pointer.
OnScreen(eng) ==
    {b \in eng.dyn : /\ bodies[b].pos.x # OutsideX
                     /\ bodies[b].pos.y >= 0
                     /\ bodies[b].pos.y <= eng.height}

PointerTargets ==
    IF engineRef = 0 \/ engines[engineRef].cleaned THEN {None}
    ELSE {None, Static("floor")} \cup {Dyn(b) : b \in OnScreen(engines[engineRef])}

MouseDown(t) ==
    /\ phase = "mounted"
    /\ engines # <<>>
    /\ ~pointer.down
    /\ pointer.gestures < MaxGestures
    /\ t \in PointerTargets
    /\ pointer' = [down |-> TRUE, moved |-> FALSE, over |-> t,
                   gestures |-> pointer.gestures + 1]
    /\ engines' = [e \in EngineIds |->
                      IF engines[e].cleaned THEN engines[e]
                      ELSE [engines[e] EXCEPT !.mouse = [button |-> 0, over |-> t]]]
    /\ UNCHANGED <<factory, culling, phase, win, dimensions, resizeTimer, resizeListener, spawnCount,
                   toggle, engineRef, matterCleanup, renderLoop, canvas, bodies,
                   flashTimers, batches>>

\* The pointer moves with the button held; it stays over what it pressed.
MouseMove ==
    /\ phase = "mounted"
    /\ pointer.down
    /\ ~pointer.moved
    /\ pointer' = [pointer EXCEPT !.moved = TRUE]
    /\ UNCHANGED <<factory, culling, phase, win, dimensions, resizeTimer, resizeListener, spawnCount,
                   toggle, engineRef, engines, matterCleanup, renderLoop, canvas,
                   bodies, flashTimers, batches>>

\* handleMouseClick of engine eng, applied to the bodies.
HandleMouseClick(eng, bods) ==
    LET body == eng.mcBody
    IN  IF body.kind = "dynamic"
        THEN [bods EXCEPT ![body.id].force = @ + 1]
        ELSE bods

\* The engines whose handleMouseClick listens to the canvas.
ClickListeners == {e \in EngineIds : "click" \in engines[e].listeners}

\* The canvas dispatches click: every registered handleMouseClick runs.
RECURSIVE DispatchClick(_, _)
DispatchClick(listening, bods) ==
    IF listening = {} THEN bods
    ELSE LET e == CHOOSE x \in listening : \A y \in listening : x <= y
         IN  DispatchClick(listening \ {e}, HandleMouseClick(engines[e], bods))

\* mouseup, then click.
MouseUpClick ==
    /\ phase = "mounted"
    /\ pointer.down
    /\ bodies' = DispatchClick(ClickListeners, bodies)
    /\ \A b \in BodyIds : bodies'[b].force <= MaxForce
    /\ pointer' = [pointer EXCEPT !.down = FALSE, !.moved = FALSE, !.over = None]
    /\ engines' = [e \in EngineIds |->
                      IF engines[e].cleaned THEN engines[e]
                      ELSE [engines[e] EXCEPT !.mouse.button = 0 - 1]]
    /\ UNCHANGED <<factory, culling, phase, win, dimensions, resizeTimer, resizeListener, spawnCount,
                   toggle, engineRef, matterCleanup, renderLoop, canvas,
                   flashTimers, batches>>

(***************************************************************************)
(* One engine tick: Runner -> Engine.update(engine)                        *)
(***************************************************************************)
wallThickness == 50

\* Sleeping.set(body, isSleeping)
SleepingSet(body, isSleeping) ==
    IF isSleeping
    THEN [body EXCEPT !.isSleeping = TRUE, !.sleepCounter = SleepThreshold,
                      !.vy = 0, !.spin = 0]
    ELSE [body EXCEPT !.isSleeping = FALSE, !.sleepCounter = 0]

\* MouseConstraint.update: the body the constraint holds after beforeUpdate.
HitTest(eng, t) ==
    IF t.kind = "dynamic" THEN (IF t.id \in eng.dyn THEN t ELSE None)
    ELSE IF t.kind \in eng.statics THEN t
    ELSE None

MouseConstraintUpdate(eng) ==
    IF eng.mouse.button = 0
    THEN IF eng.mcBody = None THEN HitTest(eng, eng.mouse.over) ELSE eng.mcBody
    ELSE None

\* Sleeping.update for one body; stillRun is the history of consecutive
\* updates that saw the body's speeds below the threshold.
SleepingUpdate(body) ==
    LET still == body.vy = 0 /\ body.spin = 0
        b0 == [body EXCEPT !.stillRun = IF still THEN Min(@ + 1, SleepThreshold) ELSE 0]
    IN  IF body.force # 0 THEN SleepingSet(b0, FALSE)
        ELSE IF still
        THEN IF body.sleepCounter + 1 >= SleepThreshold
             THEN SleepingSet(b0, TRUE)
             ELSE [b0 EXCEPT !.sleepCounter = @ + 1]
        ELSE IF body.sleepCounter > 0
        THEN [b0 EXCEPT !.sleepCounter = @ - 1]
        ELSE b0

\* A body stands at floor level when one more step down would enter the floor.
AtFloorLevel(body, eng) ==
    /\ body.pos.x # OutsideX
    /\ body.pos.y + FallStep > eng.height - wallThickness

\* The floor stops the body in this update.
Blocked(body, eng) ==
    /\ ~body.isSleeping
    /\ body.force = 0
    /\ AtFloorLevel(body, eng)

\* Gravity, the applied force and integration for one awake body.  o holds
\* what the solver leaves open here: o.bounce (a stopped body rebounds),
\* o.drift (a body above the walls leaves sideways), o.spin (angular speed
\* a body at floor level ends with; see Nudged).
BodyUpdate(body, eng, o) ==
    IF body.isSleeping THEN body
    ELSE
    LET vg == IF body.force # 0 THEN 0 - 1 ELSE Min(body.vy + 1, 1)
        y1 == body.pos.y + vg * FallStep
        moved ==
            IF vg > 0 /\ AtFloorLevel(body, eng)
            THEN [y |-> body.pos.y, vy |-> IF body.vy > 0 /\ o.bounce THEN 0 - 1 ELSE 0]
            ELSE IF y1 < SpawnY THEN [y |-> body.pos.y, vy |-> 0]
            ELSE [y |-> Min(y1, BottomY), vy |-> vg]
        x1 == IF body.pos.x # OutsideX /\ body.pos.y = SpawnY /\ o.drift
              THEN OutsideX ELSE body.pos.x
        after == [body EXCEPT !.pos = [x |-> x1, y |-> moved.y], !.vy = moved.vy]
        spin1 == IF AtFloorLevel(after, eng) THEN o.spin ELSE body.spin
    IN  [after EXCEPT !.spin = spin1, !.angle = (@ + spin1) % AngleSteps]

\* Only a moving neighbour at floor level sets a body at floor level turning.
Nudged(b, eng, bods) ==
    \E c \in eng.dyn \ {b} :
        /\ ~bods[c].isSleeping
        /\ bods[c].vy # 0 \/ bods[c].spin # 0
        /\ AtFloorLevel(bods[c], eng)

FloorPair(b) == [bodyA |-> Static("floor"), bodyB |-> Dyn(b)]

BodyPair(a, b) == [bodyA |-> Dyn(Min(a, b)), bodyB |-> Dyn(Max(a, b))]

\* Pairs.update: the pairs in contact after this update.  before/after are the
\* bodies before and after integration; touch says whether two bodies standing
\* side by side at floor level touch.
Contacts(eng, before, after, touch) ==
    {FloorPair(b) : b \in {x \in eng.dyn :
        IF before[x].isSleeping THEN FloorPair(x) \in eng.contacts
        ELSE Blocked(before[x], eng)}}
    \cup
    {BodyPair(p[1], p[2]) : p \in {q \in eng.dyn \X eng.dyn :
        /\ q[1] < q[2]
        /\ AtFloorLevel(after[q[1]], eng)
        /\ AtFloorLevel(after[q[2]], eng)
        /\ (touch \/ (before[q[1]].isSleeping /\ before[q[2]].isSleeping
                       /\ BodyPair(q[1], q[2]) \in eng.contacts))}}

\* Sleeping.afterCollisions for one body: a sleeping body in an active pair
\* with a moving dynamic body wakes; pairs with a static body wake nobody.
AfterCollisions(b, bods, pairs) ==
    IF /\ bods[b].isSleeping
       /\ \E c \in DOMAIN bods :
            /\ c # b
            /\ BodyPair(b, c) \in pairs
            /\ ~bods[c].isSleeping
            /\ (bods[c].vy # 0 \/ bods[c].spin # 0)
    THEN SleepingSet(bods[b], FALSE)
    ELSE bods[b]

\* The delay, in milliseconds, of the timeout that restores the fillStyle.
FlashRestoreMs == 100

\* A filter that keeps bodyB only.
BodiesToFlashOnlyB(pairs) ==
    SelectSeq([i \in 1..Len(pairs) |-> pairs[i].bodyB], LAMBDA t : t.kind = "dynamic")

\* The dynamic bodies handleCollision flashes, in the order it visits them.
RECURSIVE BodiesToFlash(_)
BodiesToFlash(pairs) ==
    IF pairs = <<>> THEN <<>>
    ELSE LET pair == Head(pairs)
             both == <<pair.bodyA, pair.bodyB>>
         IN  SelectSeq(both, LAMBDA t : t.kind = "dynamic") \o BodiesToFlash(Tail(pairs))

\* handleCollision: each visited body turns white and gets a timeout that
\* restores the fillStyle read just before.
RECURSIVE HandleCollision(_, _)
HandleCollision(toFlash, st) ==
    IF toFlash = <<>> THEN st
    ELSE LET b == Head(toFlash).id
             originalColor == st.bods[b].fillStyle
         IN  HandleCollision(Tail(toFlash),
                [bods |-> [st.bods EXCEPT ![b].fillStyle = FlashColor],
                 timers |-> Append(st.timers, [body |-> b, color |-> originalColor,
                                               delay |-> FlashRestoreMs])])

\* event.pairs of collisionStart: floor pairs first, by body id, then the
\* pairs of two dynamic bodies, by the ids of their bodies.
StartedPairs(started) ==
    LET floorSeq == SetToSeq({b \in BodyIds : FloorPair(b) \in started})
        base == Cardinality(BodyIds) + 1
        pairSeq == SetToSeq({q[1] * base + q[2] :
                               q \in {r \in BodyIds \X BodyIds :
                                         r[1] < r[2] /\ BodyPair(r[1], r[2]) \in started}})
    IN  [i \in 1..Len(floorSeq) |-> FloorPair(floorSeq[i])]
        \o [i \in 1..Len(pairSeq) |->
               BodyPair(pairSeq[i] \div base, pairSeq[i] % base)]

\* cullOffscreenBodies: the bodies it would remove.
CullOffscreenBodies(eng, bods) ==
    {b \in eng.dyn : bods[b].pos.y > eng.height + CULLING_CONFIG.bufferZone}

\* engine.world.bodies as the array forEach walks: the boundaries in the order
\* World.add received them, then the dynamic bodies in the order they were added.
WorldBodies(eng) ==
    SelectSeq(<<Static("floor"), Static("leftWall"), Static("rightWall")>>,
              LAMBDA s : s.kind \in eng.statics)
    \o [i \in 1..Cardinality(eng.dyn) |-> Dyn(SetToSeq(eng.dyn)[i])]

\* A forEach callback that removes the body from the world as it meets it.
ForEachBodyRemovesInPlace(call, bods, height) ==
    LET body == call.world[call.index]
        cullThreshold == height + CULLING_CONFIG.bufferZone
    IN  IF body.kind = "dynamic" /\ bods[body.id].pos.y > cullThreshold
        THEN [call EXCEPT !.index = @ + 1,
                          !.world = SelectSeq(@, LAMBDA x : x # body)]
        ELSE [call EXCEPT !.index = @ + 1]

\* A forEach callback that culls at the screen height, without the buffer.
ForEachBodyNoBuffer(call, bods, height) ==
    LET body == call.world[call.index]
    IN  [call EXCEPT !.index = @ + 1,
                     !.bodiesToRemove =
                         IF body.kind = "dynamic" /\ bods[body.id].pos.y > height
                         THEN Append(@, body) ELSE @]

\* One callback of engine.world.bodies.forEach in cullOffscreenBodies: the
\* body at the index is pushed to bodiesToRemove when it is not static and
\* below the threshold; the world is not touched.
ForEachBody(call, bods, height) ==
    LET body == call.world[call.index]
        cullThreshold == height + CULLING_CONFIG.bufferZone
    IN  [call EXCEPT !.index = @ + 1,
                     !.bodiesToRemove =
                         IF body.kind = "dynamic" /\ bods[body.id].pos.y > cullThreshold
                         THEN Append(@, body) ELSE @]

\* After the forEach: World.remove(engine.world, bodiesToRemove) when the
\* list is not empty.
WorldRemove(call) ==
    [call EXCEPT !.stage = "removed",
                 !.removeCalls = IF Len(call.bodiesToRemove) > 0 THEN @ + 1 ELSE @,
                 !.world = IF Len(call.bodiesToRemove) > 0
                           THEN SelectSeq(@, LAMBDA x : x \notin Range(call.bodiesToRemove))
                           ELSE @]

\* An afterUpdate that culls at its period and takes every body out of the
\* world, the boundaries included.
AfterUpdateCullsBoundaries(eng) ==
    IF eng.frameCount + 1 >= CullPeriod
    THEN [eng EXCEPT !.frameCount = 0, !.statics = {}, !.dyn = {}]
    ELSE [eng EXCEPT !.frameCount = @ + 1]

\* afterUpdate: the call of cullOffscreenBodies is commented out, so only the
\* frame counter changes.
AfterUpdate(eng) ==
    [eng EXCEPT !.frameCount = IF @ + 1 >= CullPeriod THEN 0 ELSE @ + 1]

Outcomes(bounces, drifts, spins) ==
    {[bounce |-> bo, drift |-> dr, spin |-> sp] :
        bo \in bounces, dr \in drifts, sp \in spins}

\* The functions f on S with f[x] \in opts[x] for every x.
RECURSIVE Choices(_, _)
Choices(S, opts) ==
    IF S = {} THEN {<<>>}
    ELSE LET x == CHOOSE y \in S : TRUE
         IN  {f @@ (x :> v) : f \in Choices(S \ {x}, opts), v \in opts[x]}

Tick(e, outcomes, touches) ==
    /\ e \in EngineIds
    /\ engines[e].running
    /\ LET eng == engines[e]
           \* beforeUpdate
           held == IF "beforeUpdate" \in eng.listeners
                   THEN MouseConstraintUpdate(eng) ELSE eng.mcBody
           \* MouseConstraint.update wakes the held body, then Sleeping.update
           slept == [b \in eng.dyn |->
                       LET woken == IF eng.mouse.button = 0 /\ held = Dyn(b)
                                    THEN SleepingSet(bodies[b], FALSE) ELSE bodies[b]
                       IN  IF eng.enableSleeping THEN SleepingUpdate(woken) ELSE woken]
           \* gravity and integration: what each body can come out as
           results == [b \in eng.dyn |->
                         {BodyUpdate(slept[b], eng, o) :
                             o \in {p \in outcomes : p.spin # 0 => Nudged(b, eng, slept)}}]
       IN  \E after \in Choices(eng.dyn, results) :
           \E touch \in IF \E x, y \in eng.dyn : /\ x # y
                                                 /\ AtFloorLevel(after[x], eng)
                                                 /\ AtFloorLevel(after[y], eng)
                        THEN touches ELSE {FALSE} :
           LET \* collisions
               pairs == Contacts(eng, slept, after, touch)
               awake == [b \in BodyIds |->
                           IF b \in eng.dyn
                           THEN IF eng.enableSleeping
                                THEN AfterCollisions(b, after, pairs) ELSE after[b]
                           ELSE bodies[b]]
               started == StartedPairs(pairs \ eng.contacts)
               flashed == IF "collisionStart" \in eng.listeners
                          THEN HandleCollision(BodiesToFlash(started),
                                               [bods |-> awake, timers |-> flashTimers])
                          ELSE [bods |-> awake, timers |-> flashTimers]
               \* forces cleared
               cleared == [b \in BodyIds |->
                             IF b \in eng.dyn THEN [flashed.bods[b] EXCEPT !.force = 0]
                             ELSE flashed.bods[b]]
               eng1 == [eng EXCEPT !.mcBody = held, !.contacts = pairs]
           IN  /\ Len(flashed.timers) <= MaxFlashTimers
               /\ bodies' = cleared
               /\ flashTimers' = flashed.timers
               /\ engines' = [engines EXCEPT ![e] =
                                 IF "afterUpdate" \in eng.listeners
                                 THEN AfterUpdate(eng1) ELSE eng1]
    /\ UNCHANGED <<factory, culling, phase, win, dimensions, resizeTimer, resizeListener, spawnCount,
                   toggle, engineRef, matterCleanup, renderLoop, canvas, pointer,
                   batches>>

\* cullOffscreenBodies of a running engine is entered.  The program never
\* calls it (see AfterUpdate), so the call works on its own copy of
\* engine.world.bodies and its result stays in `culling`.
CullStart ==
    /\ culling.stage = "idle"
    /\ \E e \in EngineIds :
          /\ engines[e].running
          /\ culling' = [stage |-> "forEach", engine |-> e,
                         world |-> WorldBodies(engines[e]), index |-> 1,
                         bodiesToRemove |-> <<>>, removeCalls |-> 0]
    /\ UNCHANGED <<factory, pageVars>>

\* The next forEach callback.
CullForEach ==
    /\ culling.stage = "forEach"
    /\ culling.index <= Len(culling.world)
    /\ culling' = ForEachBody(culling, bodies, engines[culling.engine].height)
    /\ UNCHANGED <<factory, pageVars>>

\* The forEach is over: the collected bodies are removed.
CullRemove ==
    /\ culling.stage = "forEach"
    /\ culling.index > Len(culling.world)
    /\ culling' = WorldRemove(culling)
    /\ UNCHANGED <<factory, pageVars>>

\* A restore timeout of handleCollision fires.
FlashTimerFire ==
    /\ flashTimers # <<>>
    /\ bodies' = [bodies EXCEPT ![Head(flashTimers).body].fillStyle =
                                    Head(flashTimers).color]
    /\ flashTimers' = Tail(flashTimers)
    /\ UNCHANGED <<factory, culling, phase, win, dimensions, resizeTimer, resizeListener, spawnCount,
                   toggle, engineRef, engines, matterCleanup, renderLoop, canvas,
                   pointer, batches>>

\* The pending requestAnimationFrame(render) callback runs and requests the next.
RenderTick ==
    /\ \E i \in DOMAIN renderLoop :
          LET world == renderLoop[i]
          IN  /\ \E pick \in Picks(engines[world].dyn) :
                    bodies' = RenderFrame(bodies, engines[world].dyn, pick)
              /\ canvas' = DrawFrame(bodies', engines[world].dyn)
              /\ renderLoop' = Append(SelectSeq([k \in DOMAIN renderLoop |->
                                                    IF k = i THEN 0 ELSE renderLoop[k]],
                                                LAMBDA w : w # 0),
                                      world)
    /\ UNCHANGED <<factory, culling, phase, win, dimensions, resizeTimer, resizeListener, spawnCount,
                   toggle, engineRef, engines, matterCleanup,
                   flashTimers, pointer, batches>>

(***************************************************************************)
(* Specifications.  Spec runs every action.  The others run the program    *)
(* under a narrower environment (fewer kinds of user input, fewer physics  *)
(* outcomes), so each of their behaviours is a behaviour of the program.   *)
(***************************************************************************)
\* Spawn draws: one rectangle kind, turned a quarter, in the first colour.
PlainSpecs == BodySpecs({"rectangle"}, {1}, {1}, {1})

\* Spawn draws: both shape kinds, PaletteUsed colours, turned or not.
VariedSpecs == BodySpecs(ShapeKinds, 1..PaletteUsed, {0, 1}, {1})

\* Physics outcomes: bodies fall straight, come to rest and never turn.
PlainPhysics == Outcomes({FALSE}, {FALSE}, {0})

\* Physics outcomes: a body above the walls may leave the playfield.
DriftPhysics == Outcomes({FALSE}, BOOLEAN, {0})

\* Physics outcomes: bodies may rebound from the floor and turn on it.
RichPhysics == Outcomes(BOOLEAN, {FALSE}, {0, 1})

\* The pointer goes down on something under it.
PointerDown == \E t \in PointerTargets : MouseDown(t)

\* A tick of some engine under each range of physics outcomes.
TickPlain == \E e \in EngineIds : Tick(e, PlainPhysics, {FALSE})

TickDrift == \E e \in EngineIds : Tick(e, DriftPhysics, {FALSE})

TickRich == \E e \in EngineIds : Tick(e, RichPhysics, BOOLEAN)

Next ==
    \/ Mount
    \/ MountedCommit
    \/ ResizeEvent
    \/ ResizeTimerFire(PlainSpecs)
    \/ ToggleClick(PlainSpecs)
    \/ ToggleTimerFire
    \/ Unmount
    \/ PointerDown
    \/ MouseMove
    \/ MouseUpClick
    \/ TickPlain
    \/ FlashTimerFire
    \/ RenderTick

Spec == Init /\ [][Next]_vars

\* Mounting, resizing, spawning and unmounting, with no pointer input.
NextLifecycle ==
    \/ Mount
    \/ MountedCommit
    \/ ResizeEvent
    \/ ResizeTimerFire(PlainSpecs)
    \/ ToggleClick(PlainSpecs)
    \/ ToggleTimerFire
    \/ Unmount
    \/ TickDrift
    \/ FlashTimerFire
    \/ RenderTick

SpecLifecycle == Init /\ [][NextLifecycle]_vars

\* One window size and pointer gestures on the spawned bodies.
NextPointer ==
    \/ Mount
    \/ MountedCommit
    \/ ResizeTimerFire(PlainSpecs)
    \/ ToggleClick(PlainSpecs)
    \/ PointerDown
    \/ MouseMove
    \/ MouseUpClick
    \/ TickPlain

SpecPointer == Init /\ [][NextPointer]_vars

\* One window size and the full range of collisions; frames are not drawn.
NextPhysics ==
    \/ Mount
    \/ MountedCommit
    \/ ResizeTimerFire(PlainSpecs)
    \/ ToggleClick(PlainSpecs)
    \/ TickRich
    \/ FlashTimerFire

SpecPhysics == Init /\ [][NextPhysics]_vars

(***************************************************************************)
(* Direct calls of the shape factory functions, with every draw: one call   *)
(* per run, on the page before it mounts.                                  *)
(***************************************************************************)
GetRandomColorCall ==
    /\ factory.fn = "none"
    /\ \E d \in Draws :
          factory' = [fn |-> "getRandomColor", result |-> getRandomColor(d)]
    /\ UNCHANGED appVars

CreateCircleCall ==
    /\ factory.fn = "none"
    /\ \E d \in Draws :
          factory' = [fn |-> "createCircle", result |-> createCircle(d)]
    /\ UNCHANGED appVars

CreatePolygonCall ==
    /\ factory.fn = "none"
    /\ \E sides \in 0..MaxSides : \E d \in EdgeDraws :
          factory' = [fn |-> "createPolygon", result |-> createPolygon(sides, d)]
    /\ UNCHANGED appVars

CreateStarCall ==
    /\ factory.fn = "none"
    /\ \E points \in (0 - 1)..MaxPoints : \E d \in EdgeDraws :
          factory' = [fn |-> "createStar", result |-> createStar(points, d)]
    /\ UNCHANGED appVars

CreateIrregularPolygonCall ==
    /\ factory.fn = "none"
    /\ \E dCount \in Draws : \E dBase \in EdgeDraws :
       \E jitter \in [1..VertexCount(dCount) -> EdgeDraws] :
          factory' = [fn |-> "createIrregularPolygon",
                      result |-> createIrregularPolygon(dCount, dBase, jitter)]
    /\ UNCHANGED appVars

\* createRandomShape over a registry holding the first n factories.
CreateRandomShapeCall ==
    /\ factory.fn = "none"
    /\ \E n \in 1..Len(SHAPE_FACTORIES) : \E d \in Draws :
          factory' = [fn |-> "createRandomShape",
                      registry |-> SubSeq(SHAPE_FACTORIES, 1, n),
                      result |-> RandomFactory(d, SubSeq(SHAPE_FACTORIES, 1, n))]
    /\ UNCHANGED appVars

\* The draws of one spawn batch and of one body of it: the count, then x,
\* createRandomShape(x, -50) and the initial velocity.
SpawnEffectCall ==
    /\ factory.fn = "none"
    /\ \E dc \in Draws, dx \in Draws, dvx \in EdgeDraws \cup {Unit \div 2},
          dvy \in EdgeDraws, size \in WindowSizes, spec \in PlainSpecs :
          factory' = [fn |-> "spawn",
                      width |-> size.width,
                      result |-> [count |-> SpawnBatchCount(dc),
                                  x |-> SpawnX(dx, size.width),
                                  y |-> CreateRandomShape(Floor(SpawnX(dx, size.width)),
                                                          spec).pos.y,
                                  velocity |-> initialVelocity(dvx, dvy)]]
    /\ UNCHANGED appVars

NextFactory ==
    \/ SpawnEffectCall
    \/ GetRandomColorCall
    \/ CreateCircleCall
    \/ CreatePolygonCall
    \/ CreateStarCall
    \/ CreateIrregularPolygonCall
    \/ CreateRandomShapeCall

SpecFactory == Init /\ [][NextFactory]_vars

\* One window size and every kind of spawn draw.
NextSpawn ==
    \/ Mount
    \/ MountedCommit
    \/ ResizeTimerFire(VariedSpecs)
    \/ ToggleClick(VariedSpecs)
    \/ TickPlain
    \/ RenderTick

SpecSpawn == Init /\ [][NextSpawn]_vars

\* The whole world at work in one window size: spawn, pointer gestures with
\* click forces, collisions with flashes, render frames, teardown.
NextWorld ==
    \/ Mount
    \/ MountedCommit
    \/ ResizeTimerFire(PlainSpecs)
    \/ ToggleClick(PlainSpecs)
    \/ Unmount
    \/ PointerDown
    \/ MouseMove
    \/ MouseUpClick
    \/ TickPlain
    \/ FlashTimerFire
    \/ RenderTick

SpecWorld == Init /\ [][NextWorld]_vars

\* The page in a window that can also collapse to no width and come back.
NextCollapse ==
    \/ Mount
    \/ MountedCommit
    \/ ResizeEvent
    \/ ResizeCollapse
    \/ ResizeTimerFire(PlainSpecs)
    \/ ToggleClick(PlainSpecs)
    \/ TickPlain
    \/ RenderTick
    \/ Unmount

SpecCollapse == Init /\ [][NextCollapse]_vars

\* A step of the page while no call of cullOffscreenBodies is in progress
\* (a callback runs to completion before the next task starts).
PageStep ==
    /\ culling.stage = "idle"
    /\ \/ Mount
       \/ MountedCommit
       \/ ResizeTimerFire(PlainSpecs)
       \/ ToggleClick(PlainSpecs)
       \/ TickDrift

\* The page with cullOffscreenBodies entered on the world of a running engine.
NextCull ==
    \/ PageStep
    \/ CullStart
    \/ CullForEach
    \/ CullRemove

SpecCull == Init /\ [][NextCull]_vars

(***************************************************************************)
(* Claims                                                                  *)
(***************************************************************************)
\* The culling bound of engine e: y > height + CULLING_CONFIG.bufferZone.
BeyondCullBound(e, b) ==
    bodies[b].pos.y > engines[e].height + CULLING_CONFIG.bufferZone

\* C1: a dynamic body that is beyond the playfield bound plus the buffer
\* margin when an engine tick starts is no longer in the world when that tick
\* ends (it is removed within one tick of crossing the bound).
C1_CulledWithinOneTick ==
    [][\A e \in EngineIds :
          Tick(e, DriftPhysics, {FALSE}) =>
              \A b \in engines[e].dyn :
                  BeyondCullBound(e, b) => b \notin engines'[e].dyn]_vars

\* C7: every engine useMatter created has the gravity and the position and
\* velocity iteration counts of PHYSICS_CONFIG.
C7_EngineUsesPhysicsConfig ==
    \A e \in EngineIds :
        /\ engines[e].gravity = PHYSICS_CONFIG.gravity
        /\ engines[e].positionIterations = PHYSICS_CONFIG.positionIterations
        /\ engines[e].velocityIterations = PHYSICS_CONFIG.velocityIterations

\* C2: once the useMatter effect cleanup of an engine has returned, its runner
\* is stopped, its world holds no bodies and no constraints, its click,
\* collisionStart and afterUpdate listeners are removed, and no tick of that
\* engine can fire.
C2_TornDown ==
    \A e \in EngineIds :
        engines[e].cleaned =>
            /\ ~engines[e].running
            /\ engines[e].dyn = {}
            /\ engines[e].statics = {}
            /\ engines[e].constraints = {}
            /\ engines[e].listeners \cap {"click", "collisionStart", "afterUpdate"} = {}
            /\ ~ENABLED Tick(e, DriftPhysics, {FALSE})

\* An engine was torn down while its world held a body: the body is in no
\* world any more.
C2_Witness ==
    /\ \E e \in EngineIds : engines[e].cleaned
    /\ \E b \in BodyIds : \A e \in EngineIds : b \notin engines[e].dyn

\* C4: the number of spawn batches added to the world equals the number of
\* toggle clicks, whatever clicks, resizes and re-renders happened.
C4_OneBatchPerClick == batches = spawnCount

\* C9: a render frame changes no body's position, angle, velocity, sleeping
\* state or force, and adds or removes no body or constraint; of a body it may
\* write only fillStyle.
C9_RenderOnlyReads ==
    [][RenderTick =>
          /\ engines' = engines
          /\ DOMAIN bodies' = DOMAIN bodies
          /\ \A b \in BodyIds :
                [bodies'[b] EXCEPT !.fillStyle = bodies[b].fillStyle] = bodies[b]]_vars

\* After the only spawn so far, a frame of the render loop drew a body that
\* had fallen from its spawn height.
C9_Witness ==
    /\ batches = 1
    /\ renderLoop # <<>>
    /\ \E d \in canvas :
          /\ bodies[d.body].pos.y > SpawnY
          /\ d.outline = DrawBody(bodies[d.body])

\* C10: the outline a render frame draws for a polygon body is the outline of
\* the body's world-space vertices (the body is drawn rotated by its angle
\* once).
C10_OutlineIsVertices ==
    [][RenderTick =>
          \A d \in canvas' :
              bodies[d.body].shape # "circle" =>
                  Range(d.outline) = Range(Vertices(bodies[d.body]))]_vars

\* C3: once every pending restore timeout of a body has fired, the body's
\* fillStyle is a colour of the palette again, not the flash colour.
C3_FlashReverts ==
    \A b \in BodyIds :
        (\A i \in 1..Len(flashTimers) : flashTimers[i].body # b) =>
            /\ bodies[b].fillStyle # FlashColor
            /\ bodies[b].fillStyle \in Range(COLORS)

\* C5: the release of a press-move-release gesture applies no click force to
\* any body.
C5_DragAppliesNoForce ==
    [][(MouseUpClick /\ pointer.moved) =>
          \A b \in BodyIds : bodies'[b].force = bodies[b].force]_vars

\* C6: the click that ends a press-and-release on a dynamic body applies the
\* upward force to that body exactly once, however ticks interleave with the
\* pointer events.
C6_ClickAppliesForceOnce ==
    [][(MouseUpClick /\ ~pointer.moved /\ pointer.over.kind = "dynamic") =>
          bodies'[pointer.over.id].force = bodies[pointer.over.id].force + 1]_vars

\* C8: a body of a world is asleep only if the last SleepThreshold updates in
\* a row all saw its linear and angular speed below the threshold.
C8_SleepsAfterStillRun ==
    \A e \in EngineIds : \A b \in engines[e].dyn :
        bodies[b].isSleeping => bodies[b].stillRun >= SleepThreshold

\* The batches of bodies one more toggle click can spawn in the current state.
ClickSpawns(specs) ==
    {[i \in 1..Len(batch) |-> CreateRandomShape(dimensions.width \div 2, batch[i])] :
        batch \in CommitDraws(TRUE, dimensions, spawnCount + 1, specs)}

\* C11: the bodies a toggle click spawns (their number, kinds, colours,
\* angles, positions and velocities) are determined by the state and the
\* inputs: two runs that agree so far spawn the same bodies.
C11_SpawnIsDetermined ==
    phase = "mounted" => Cardinality(ClickSpawns(VariedSpecs)) = 1

\* C12: createCircle's radius is in [20, 50]; createIrregularPolygon's vertex
\* count is one of 4, 5, 6, 7, its base radius is in [25, 45] and every vertex
\* radius is 0.7 to 1.3 times the base radius; getRandomColor's index is in
\* 0..7 and its result is a colour of COLORS.
C12_FactoryBounds ==
    /\ factory.fn = "createCircle" =>
          /\ factory.result.radius >= 20 * Unit
          /\ factory.result.radius <= 50 * Unit
    /\ factory.fn = "createIrregularPolygon" =>
          /\ factory.result.vertexCount \in 4..7
          /\ factory.result.baseRadius >= 25 * Unit
          /\ factory.result.baseRadius <= 45 * Unit
          /\ \A k \in DOMAIN factory.result.vertices :
                /\ factory.result.vertices[k].radius >= 7 * Unit * factory.result.baseRadius
                /\ factory.result.vertices[k].radius <= 13 * Unit * factory.result.baseRadius
    /\ factory.fn = "getRandomColor" =>
          /\ factory.result.index \in 0..(Len(COLORS) - 1)
          /\ factory.result.color \in Range(COLORS)

\* C13: for points >= 1, createStar builds 2 * points vertices, the first at
\* the top (a quarter turn before angle 0), each 1 / (2 * points) of a turn
\* after the one before, with the outer radius at even indices and 0.4 times
\* the outer radius at odd indices.
C13_StarVertices ==
    (factory.fn = "createStar" /\ factory.result.points >= 1) =>
        LET star == factory.result
            v == star.vertices
        IN  /\ Len(v) = 2 * star.points
            /\ 4 * v[1].angle.num = 0 - v[1].angle.den
            /\ \A k \in 2..Len(v) :
                  /\ v[k].angle.den = v[k - 1].angle.den
                  /\ (v[k].angle.num - v[k - 1].angle.num) * 2 * star.points
                        = v[k].angle.den
            /\ \A k \in 1..Len(v) :
                  v[k].radius = IF (k - 1) % 2 = 0
                                THEN 10 * star.outerRadius
                                ELSE 4 * star.outerRadius

\* createStar was called with the largest number of points.
C13_Witness ==
    /\ factory.fn = "createStar"
    /\ factory.result.points = MaxPoints
    /\ Len(factory.result.vertices) = 2 * MaxPoints

\* C14: whatever the draw and the non-empty registry, createRandomShape's
\* index is within the registry (a factory is always defined), and every
\* factory of the registry is chosen by some draw.
C14_FactoryChosen ==
    factory.fn = "createRandomShape" =>
        /\ factory.result.index \in 0..(Len(factory.registry) - 1)
        /\ factory.result.factory \in Range(factory.registry)
        /\ \A i \in 1..Len(factory.registry) :
              \E d \in Draws :
                  RandomFactory(d, factory.registry).factory = factory.registry[i]

\* With the full registry, the largest draw chose the last factory.
C14_Witness ==
    /\ factory.fn = "createRandomShape"
    /\ factory.registry = SHAPE_FACTORIES
    /\ factory.result.factory = SHAPE_FACTORIES[Len(SHAPE_FACTORIES)]

\* C15: createPolygon with fewer than 3 sides and createStar with no points
\* fail with a ConstructionError instead of returning a body.
C15_DegenerateRejected ==
    /\ (factory.fn = "createPolygon" /\ factory.result.sides < 3) =>
          factory.result.error = "ConstructionError"
    /\ (factory.fn = "createStar" /\ factory.result.points <= 0) =>
          factory.result.error = "ConstructionError"

\* C16: while no engine has been initialized (the canvas is not mounted, or
\* width or height is 0), the effects and accessors do nothing: no render
\* loop is started, nothing is drawn, no body and no engine is created.
C16_NoOpBeforeInit ==
    engineRef = 0 =>
        /\ GetWorld(engineRef) = 0
        /\ renderLoop = <<>>
        /\ canvas = {}
        /\ bodies = <<>>
        /\ batches = 0
        /\ engines = <<>>

\* The toggle was clicked on the mounted canvas before the dimensions were
\* known: the render and spawn effects ran without an engine.
C16_Witness ==
    /\ phase = "mounted"
    /\ engineRef = 0
    /\ spawnCount > 0

\* C17: the drag constraint of an engine holds a body only while the pointer
\* is down, and only the dynamic body the pointer went down on; it never
\* holds a static body.
C17_DragConstraintLifetime ==
    \A e \in EngineIds :
        engines[e].mcBody # None =>
            /\ engines[e].mcBody.kind = "dynamic"
            /\ pointer.down
            /\ pointer.over = engines[e].mcBody

\* C18: the body set of a world changes only between ticks and outside the
\* culling iteration: an engine update leaves every world's bodies as they
\* were, the forEach of cullOffscreenBodies leaves world.bodies as it was while
\* it collects, and the removal that follows takes out exactly the collected
\* bodies.
C18_BodySetChangesAtBoundaries ==
    [][/\ TickDrift =>
            \A e \in EngineIds : /\ engines'[e].dyn = engines[e].dyn
                                 /\ engines'[e].statics = engines[e].statics
       /\ (culling.stage = "forEach" /\ culling'.stage = "forEach") =>
            /\ culling'.world = culling.world
            /\ Len(culling.bodiesToRemove) <= culling.index - 1
       /\ (culling.stage = "forEach" /\ culling'.stage = "removed") =>
            /\ culling.index = Len(culling.world) + 1
            /\ Range(culling'.world) = Range(culling.world) \ Range(culling.bodiesToRemove)]_vars

\* A call of cullOffscreenBodies that collected a body and removed it after
\* its iteration, on a world that has been through an update with a contact.
C18_Witness ==
    /\ culling.stage = "removed"
    /\ Len(culling.bodiesToRemove) > 0
    /\ Len(culling.world) < culling.index - 1
    /\ engines[culling.engine].contacts # {}

\* C19: every engine that has been initialized and not torn down has the
\* three static boundaries floor, leftWall and rightWall as the static bodies
\* of its world.
C19_BoundariesMaintained ==
    \A e \in EngineIds :
        ~engines[e].cleaned =>
            engines[e].statics = {"floor", "leftWall", "rightWall"}

\* A live engine whose world has been through spawn, a floor contact with a
\* flash, a render frame and a click force.
C19_Witness ==
    \E e \in EngineIds :
        /\ ~engines[e].cleaned
        /\ engines[e].contacts # {}
        /\ canvas # {}
        /\ \E b \in engines[e].dyn : bodies[b].fillStyle = FlashColor
        /\ \E b \in engines[e].dyn : bodies[b].force > 0

\* C20: after every step at most one engine has a running runner, and a step
\* that creates an engine leaves every engine created before it torn down.
C20_OneLiveEngine ==
    [][/\ Cardinality({e \in DOMAIN engines' : engines'[e].running}) <= 1
       /\ Len(engines') > Len(engines) =>
              \A e \in DOMAIN engines : /\ engines'[e].cleaned
                                        /\ ~engines'[e].running]_vars

\* A dimension change has replaced the first engine: it is torn down and the
\* second one runs.
C20_Witness ==
    /\ Len(engines) = 2
    /\ engines[1].cleaned
    /\ engines[2].running
    /\ engineRef = 2

C22_ToggleResetsAfterThreeSeconds ==
    /\ toggle.timer => (toggle.isActive /\ toggle.delay = 3000)
    /\ (toggle.isActive /\ phase = "mounted") => toggle.timer

\* C23: at most one resize debounce timeout is pending, set for 250 ms by the
\* last resize event; the dimensions change only when that timeout fires, to
\* the window size of that moment, and an engine is created only in a step
\* that changes the dimensions, one engine at most.
C23_ResizeDebounce ==
    [][/\ Len(resizeTimer') <= 1
       /\ \A i \in DOMAIN resizeTimer' : resizeTimer'[i] = 250
       /\ (win' # win) => (resizeTimer' = <<250>> /\ dimensions' = dimensions)
       /\ (dimensions' # dimensions) =>
              /\ resizeTimer # <<>>
              /\ resizeTimer' = <<>>
              /\ dimensions' = win
       /\ Len(engines') <= Len(engines) + 1
       /\ Len(engines') > Len(engines) => dimensions' # dimensions]_vars

\* Resize events, then the one update they lead to: the dimensions are the
\* new window size, no timeout is pending, and the engine created for the
\* first size has been replaced by exactly one other.
C23_Witness ==
    /\ phase = "mounted"
    /\ resizeTimer = <<>>
    /\ win # InitialWindow
    /\ dimensions = win
    /\ Len(engines) = 2
    /\ engines[2].running

\* C24: when cullOffscreenBodies returns, the world holds the bodies it held
\* at entry without the non-static bodies with position.y > height + 500, in
\* their order; World.remove was called once if there were such bodies, and
\* not at all otherwise.
C24_CullsExactlyBeyondBuffer ==
    culling.stage = "removed" =>
        LET eng == engines[culling.engine]
            gone == {Dyn(b) : b \in {x \in eng.dyn : bodies[x].pos.y > eng.height + 500}}
        IN  /\ culling.world = SelectSeq(WorldBodies(eng), LAMBDA x : x \notin gone)
            /\ \A l \in {"floor", "leftWall", "rightWall"} :
                   Static(l) \in Range(culling.world)
            /\ culling.removeCalls = IF gone = {} THEN 0 ELSE 1

\* A call that removed one dynamic body and kept another that is below the
\* screen height but within the buffer.
C24_Witness ==
    /\ culling.stage = "removed"
    /\ culling.removeCalls = 1
    /\ \E b \in engines[culling.engine].dyn :
          /\ Dyn(b) \in Range(culling.world)
          /\ bodies[b].pos.y > engines[culling.engine].height

\* C25: in an engine update, for the pairs whose collision starts, every
\* non-static body of a pair turns '#FFFFFF' and gets one 100 ms restore
\* timer per pair it is in; no timer is set for anything else, no other
\* body's fillStyle changes, and the static bodies stay as they are.
C25_FlashOnlyDynamic ==
    [][\A e \in EngineIds :
          Tick(e, RichPhysics, BOOLEAN) =>
              LET started == engines'[e].contacts \ engines[e].contacts
                  hits == {<<p, t>> \in started \X {Dyn(b) : b \in BodyIds} :
                              t \in {p.bodyA, p.bodyB}}
                  new == SubSeq(flashTimers', Len(flashTimers) + 1, Len(flashTimers'))
              IN  /\ Len(new) = Cardinality(hits)
                  /\ \A h \in hits :
                        /\ bodies'[h[2].id].fillStyle = "#FFFFFF"
                        /\ Cardinality({i \in DOMAIN new : new[i].body = h[2].id})
                             = Cardinality({g \in hits : g[2] = h[2]})
                  /\ \A i \in DOMAIN new :
                        /\ new[i].body \in engines[e].dyn
                        /\ new[i].delay = 100
                  /\ \A b \in BodyIds :
                        (\A h \in hits : h[2].id # b) =>
                            bodies'[b].fillStyle = bodies[b].fillStyle
                  /\ engines'[e].statics = engines[e].statics]_vars

\* An update has started a floor pair and a pair of two dynamic bodies at
\* once: three restore timers, none for the floor.
C25_Witness ==
    \E e \in EngineIds :
        /\ FloorPair(1) \in engines[e].contacts
        /\ BodyPair(1, 2) \in engines[e].contacts
        /\ Len(flashTimers) = 3
        /\ bodies[1].fillStyle = "#FFFFFF"
        /\ bodies[2].fillStyle = "#FFFFFF"

\* C26: at most one render callback is pending, and once PhysicsCanvas has
\* unmounted none is pending, so none runs.
C26_SingleRenderLoop ==
    /\ Len(renderLoop) <= 1
    /\ phase = "unmounted" => (renderLoop = <<>> /\ ~ENABLED RenderTick)

\* Unmounted after re-renders and a dimension change while the loop ran.
C26_Witness ==
    /\ phase = "unmounted"
    /\ Len(engines) = 2
    /\ spawnCount > 0
    /\ canvas # {}

\* C27: whenever the engine of engineRef is live, every pending render
\* callback draws its world; the step that creates an engine leaves the
\* render loop on the new world; and a frame drawn while an engine is live
\* draws the bodies of that engine's world.
C27_RenderReadsLiveWorld ==
    [][/\ (engineRef' # 0 /\ ~engines'[engineRef'].cleaned) =>
              \A i \in DOMAIN renderLoop' : renderLoop'[i] = engineRef'
       /\ Len(engines') > Len(engines) => renderLoop' = <<Len(engines')>>
       /\ (RenderTick /\ engineRef # 0 /\ ~engines[engineRef].cleaned) =>
              /\ {d.body : d \in canvas'} = engines[engineRef].dyn
              /\ \A e \in EngineIds :
                    engines[e].cleaned => {d.body : d \in canvas'} \cap engines[e].dyn = {}]_vars

\* After a dimension change re-created the engine, a frame drew a body of the
\* new world.
C27_Witness ==
    /\ Len(engines) = 2
    /\ engineRef = 2
    /\ renderLoop = <<2>>
    /\ canvas # {}
    /\ \A d \in canvas : d.body \in engines[2].dyn

\* C28: a commit whose spawn effect passes its guards adds every body of the
\* batch to the world of the live engine; and once the canvas is mounted with
\* non-zero dimensions, every click made so far has had its batch spawned.
C28_NoClickLost ==
    [][/\ batches' > batches =>
              /\ engineRef' # 0
              /\ engines'[engineRef'].running
              /\ Len(bodies') > Len(bodies)
              /\ \A b \in (Len(bodies) + 1)..Len(bodies') : b \in engines'[engineRef'].dyn
       /\ (phase' = "mounted" /\ dimensions'.width # 0 /\ dimensions'.height # 0)
              => batches' >= spawnCount']_vars

\* C29: once PhysicsCanvas has unmounted, no resize debounce timeout and no
\* flash restore timeout is pending, so none of them fires.
C29_NoTimersAfterUnmount ==
    phase = "unmounted" =>
        /\ resizeTimer = <<>>
        /\ flashTimers = <<>>
        /\ ~ENABLED ResizeTimerFire(PlainSpecs)
        /\ ~ENABLED FlashTimerFire

\* C30: a torn-down engine is out of reach: getEngine and getWorld do not
\* return it or its world, addBody adds nothing to it, and no pending render
\* callback reads its world.
C30_TornDownUnreachable ==
    \A e \in EngineIds :
        engines[e].cleaned =>
            /\ GetEngine(engineRef) # e
            /\ GetWorld(engineRef) # e
            /\ AddBody(engines, engineRef, {Len(bodies) + 1})[e].dyn = engines[e].dyn
            /\ \A i \in DOMAIN renderLoop : renderLoop[i] # e

====
